---- MODULE Spec2Model ----
(***************************************************************************)
(* Model of seo_tool.py (Pro+ SEO Analyzer): the "Analyze SEO" button      *)
(* handler as a sequence of steps, and the scoring functions it calls as   *)
(* operators.                                                              *)
(*                                                                         *)
(* Strings are sequences of one-character strings, so that len(), lower(), *)
(* count(), split(), strip(), slicing and the `in` test are computed.      *)
(* Python floats are IEEE-754 doubles: a 53-bit significand held as an     *)
(* implicit leading 1 followed by four 13-bit limbs, and a binary          *)
(* exponent; division and multiplication round to nearest, ties to even.   *)
(***************************************************************************)
EXTENDS Integers, Sequences, FiniteSets, TLC

VARIABLES pc, html, soup, meta, headings, total_words, full_text,
          main_keyword, robots, sitemap, speed_score,
          onpage, technical, offpage, semantic,
          overall_score, serp_estimate, roadmap, fetched, net, ui

vars == <<pc, html, soup, meta, headings, total_words, full_text,
          main_keyword, robots, sitemap, speed_score,
          onpage, technical, offpage, semantic,
          overall_score, serp_estimate, roadmap, fetched, net, ui>>

----------------------------------------------------------------------------
(* Bounds of the model *)

\* longest heading list of a document
MaxHeadings == 1
\* longest list of JSON-LD script blocks of a document
MaxBlocks == 1
\* longest text / keyword enumerated character by character
MaxTextLen == 3
MaxKeywordLen == 2
\* largest number of whitespace-delimited tokens of a generated text
MaxWords == 100
\* largest overall score given to estimate_serp_rank on its own
MaxOverall == 120

----------------------------------------------------------------------------
(* Python str operations on sequences of characters *)

UpperChars == <<"A","B","C","D","E","F","G","H","I","J","K","L","M",
                "N","O","P","Q","R","S","T","U","V","W","X","Y","Z">>
LowerChars == <<"a","b","c","d","e","f","g","h","i","j","k","l","m",
                "n","o","p","q","r","s","t","u","v","w","x","y","z">>
DigitChars == <<"0","1","2","3","4","5","6","7","8","9">>

Range(s) == {s[i] : i \in 1..Len(s)}

LowerChar(ch) ==
    IF \E i \in 1..26 : UpperChars[i] = ch
    THEN LowerChars[CHOOSE i \in 1..26 : UpperChars[i] = ch]
    ELSE ch

\* str.lower()
Lower(s) == [i \in 1..Len(s) |-> LowerChar(s[i])]

\* str.isspace() of one character
IsSpace(ch) == ch \in {" ", "\t", "\n", "\r"}

\* regex class \w
IsWordChar(ch) == ch \in Range(UpperChars) \cup Range(LowerChars)
                         \cup Range(DigitChars) \cup {"_"}

\* `sub in s`
Contains(s, sub) ==
    \E i \in 1..(Len(s) - Len(sub) + 1) : SubSeq(s, i, i + Len(sub) - 1) = sub

\* str.count(sub): non-overlapping occurrences taken greedily from the left;
\* the empty string occurs len(s)+1 times
Matches(s, sub) ==
    {i \in 1..(Len(s) - Len(sub) + 1) : SubSeq(s, i, i + Len(sub) - 1) = sub}

RECURSIVE CountFrom(_, _, _)
CountFrom(P, n, i) ==
    LET Q == {j \in P : j >= i}
    IN IF Q = {} THEN 0
       ELSE LET j == CHOOSE x \in Q : \A y \in Q : x <= y
            IN 1 + CountFrom(Q, n, j + n)

Count(s, sub) ==
    IF Len(sub) = 0 THEN Len(s) + 1
    ELSE CountFrom(Matches(s, sub), Len(sub), 1)

\* len(s.split()): maximal runs of non-whitespace characters
SplitLen(s) ==
    Cardinality({i \in 1..Len(s) :
                    /\ ~IsSpace(s[i])
                    /\ (i = 1 \/ IsSpace(s[i-1]))})

\* len(re.findall(r"\b\w+\b", s)): maximal runs of word characters
WordsLen(s) ==
    Cardinality({i \in 1..Len(s) :
                    /\ IsWordChar(s[i])
                    /\ (i = 1 \/ ~IsWordChar(s[i-1]))})

\* str.strip()
Strip(s) ==
    IF \A i \in 1..Len(s) : IsSpace(s[i]) THEN <<>>
    ELSE LET a == CHOOSE i \in 1..Len(s) :
                    ~IsSpace(s[i]) /\ \A j \in 1..(i-1) : IsSpace(s[j])
             b == CHOOSE i \in 1..Len(s) :
                    ~IsSpace(s[i]) /\ \A j \in (i+1)..Len(s) : IsSpace(s[j])
         IN SubSeq(s, a, b)

\* s[:n]
Prefix(s, n) == SubSeq(s, 1, IF Len(s) < n THEN Len(s) ELSE n)

\* a string of n copies of one character
Rep(ch, n) == [i \in 1..n |-> ch]

----------------------------------------------------------------------------
(* Python float (IEEE-754 binary64) arithmetic *)

LimbBase == 2^13

FloatZero == [zero |-> TRUE, E |-> 0, c |-> <<0, 0, 0, 0>>]

\* add one unit in the last place; o: the significand overflowed to 2^53
IncLimbs(c) ==
    IF c[4] + 1 < LimbBase THEN [c |-> <<c[1], c[2], c[3], c[4] + 1>>, o |-> FALSE]
    ELSE IF c[3] + 1 < LimbBase THEN [c |-> <<c[1], c[2], c[3] + 1, 0>>, o |-> FALSE]
    ELSE IF c[2] + 1 < LimbBase THEN [c |-> <<c[1], c[2] + 1, 0, 0>>, o |-> FALSE]
    ELSE IF c[1] + 1 < LimbBase THEN [c |-> <<c[1] + 1, 0, 0, 0>>, o |-> FALSE]
    ELSE [c |-> <<0, 0, 0, 0>>, o |-> TRUE]

\* round to nearest, ties to even: up says the discarded part is above one
\* half, tie that it is exactly one half
RoundLimbs(E, c, up, tie) ==
    IF up \/ (tie /\ c[4] % 2 = 1)
    THEN LET r == IncLimbs(c)
         IN [zero |-> FALSE, E |-> IF r.o THEN E + 1 ELSE E, c |-> r.c]
    ELSE [zero |-> FALSE, E |-> E, c |-> c]

\* scale k/n by a power of two into [1,2)
RECURSIVE FloatNorm(_, _, _)
FloatNorm(k, n, E) ==
    IF k < n THEN FloatNorm(2 * k, n, E - 1)
    ELSE IF k >= 2 * n THEN FloatNorm(k, 2 * n, E + 1)
    ELSE [k |-> k, n |-> n, E |-> E]

\* the float k / n of two non-negative ints, n > 0
FloatDiv(k, n) ==
    IF k = 0 THEN FloatZero
    ELSE LET s  == FloatNorm(k, n, 0)
             r0 == s.k - s.n
             c1 == (r0 * LimbBase) \div s.n
             r1 == (r0 * LimbBase) % s.n
             c2 == (r1 * LimbBase) \div s.n
             r2 == (r1 * LimbBase) % s.n
             c3 == (r2 * LimbBase) \div s.n
             r3 == (r2 * LimbBase) % s.n
             c4 == (r3 * LimbBase) \div s.n
             r4 == (r3 * LimbBase) % s.n
         IN RoundLimbs(s.E, <<c1, c2, c3, c4>>, 2 * r4 > s.n, 2 * r4 = s.n)

\* the float x * 100
FloatMul100(x) ==
    IF x.zero THEN FloatZero
    ELSE LET t4 == x.c[4] * 100
             t3 == x.c[3] * 100 + (t4 \div LimbBase)
             t2 == x.c[2] * 100 + (t3 \div LimbBase)
             t1 == x.c[1] * 100 + (t2 \div LimbBase)
             p0 == 100 + (t1 \div LimbBase)
             p  == <<t1 % LimbBase, t2 % LimbBase, t3 % LimbBase, t4 % LimbBase>>
             d  == IF p0 < 128 THEN 6 ELSE 7
             D  == 2^d
             S  == LimbBase \div D
             q1 == (p0 % D) * S + (p[1] \div D)
             q2 == (p[1] % D) * S + (p[2] \div D)
             q3 == (p[2] % D) * S + (p[3] \div D)
             q4 == (p[3] % D) * S + (p[4] \div D)
             rem == p[4] % D
         IN RoundLimbs(x.E + d, <<q1, q2, q3, q4>>, 2 * rem > D, 2 * rem = D)

\* the float x * 2 (exact)
FloatMul2(x) == IF x.zero THEN x ELSE [x EXCEPT !.E = @ + 1]

\* the leading 27 bits of the significand
FloatTop(x) == LimbBase * LimbBase + x.c[1] * LimbBase + x.c[2]

\* int(x) for 0 <= x < 2^27
FloatTrunc(x) ==
    IF x.zero \/ x.E < 0 THEN 0 ELSE FloatTop(x) \div 2^(26 - x.E)

FloatHasFrac(x) ==
    /\ ~x.zero
    /\ \/ x.E < 0
       \/ /\ x.E <= 26
          /\ \/ FloatTop(x) % 2^(26 - x.E) # 0
             \/ x.c[3] # 0
             \/ x.c[4] # 0

\* x < i and x > i for a float x and a small positive int i
FloatLT(x, i) == x.zero \/ x.E < 0 \/ (x.E <= 26 /\ FloatTrunc(x) < i)
FloatGT(x, i) ==
    /\ ~x.zero
    /\ x.E >= 0
    /\ \/ x.E > 26
       \/ FloatTrunc(x) > i
       \/ FloatTrunc(x) = i /\ FloatHasFrac(x)

PyRoundQuarterHalfUp(s) == (s + 2) \div 4

\* round(s / 4) of an int s >= 0: s / 4 is exact in binary, round() goes to
\* the nearest int, ties to the even one
PyRoundQuarter(s) ==
    LET q == s \div 4
        r == s % 4
    IN IF 2 * r < 4 THEN q
       ELSE IF 2 * r > 4 THEN q + 1
       ELSE IF q % 2 = 0 THEN q ELSE q + 1

----------------------------------------------------------------------------
(* Scoring functions *)

\* a literal string, and an f-string with its interpolated values
Lit(str) == [fmt |-> str, args |-> <<>>]
Fmt(str, args) == [fmt |-> str, args |-> args]

\* one `if cond: score += points / else: suggestions.append(..);
\* improvements.append({"fix": .., "boost": ..})` block
Bucket(cond, points, suggestion, fix, boost) ==
    IF cond
    THEN [score |-> points, suggestions |-> <<>>, improvements |-> <<>>]
    ELSE [score |-> 0, suggestions |-> <<suggestion>>,
          improvements |-> <<[fix |-> fix, boost |-> boost]>>]

\* the effect of two consecutive blocks on score, suggestions, improvements
Then(a, b) ==
    [score |-> a.score + b.score,
     suggestions |-> a.suggestions \o b.suggestions,
     improvements |-> a.improvements \o b.improvements]

calculate_onpage_score_strict(m, h, words) ==
    Then(Bucket(10 < Len(m.title) /\ Len(m.title) <= 60, 20,
                Lit("Title length should be 10-60 characters"),
                Lit("<title>Your Page Title</title>"), 10),
    Then(Bucket(50 <= Len(m.description) /\ Len(m.description) <= 160, 20,
                Lit("Meta description should be 50-160 characters"),
                Lit("<meta name=\"description\" content=\"Your meta description here\">"), 10),
    Then(Bucket(Len(h.h1) >= 1, 20,
                Lit("Add at least one H1 heading"),
                Lit("<h1>Your Main Heading</h1>"), 10),
    Then(Bucket(words >= 300, 20,
                Lit("Add more content (min 300 words)"),
                Lit("Add high-quality content relevant to your topic"), 10),
         Bucket(Len(m.canonical) > 0, 20,
                Lit("Add a canonical tag"),
                Lit("<link rel=\"canonical\" href=\"https://yourwebsite.com/page-url\">"), 10)))))

calculate_onpage_score(m, h, words) ==
    Then(Bucket(10 <= Len(m.title) /\ Len(m.title) <= 60, 20,
                Lit("Title length should be 10-60 characters"),
                Lit("<title>Your Page Title</title>"), 10),
    Then(Bucket(50 <= Len(m.description) /\ Len(m.description) <= 160, 20,
                Lit("Meta description should be 50-160 characters"),
                Lit("<meta name=\"description\" content=\"Your meta description here\">"), 10),
    Then(Bucket(Len(h.h1) >= 1, 20,
                Lit("Add at least one H1 heading"),
                Lit("<h1>Your Main Heading</h1>"), 10),
    Then(Bucket(words >= 300, 20,
                Lit("Add more content (min 300 words)"),
                Lit("Add high-quality content relevant to your topic"), 10),
         Bucket(Len(m.canonical) > 0, 20,
                Lit("Add a canonical tag"),
                Lit("<link rel=\"canonical\" href=\"https://yourwebsite.com/page-url\">"), 10)))))

NotAvailable == <<"n","o","t"," ","a","v","a","i","l","a","b","l","e">>

calculate_technical_score_40(rob, smap, viewport, doc) ==
    Then(Bucket(~Contains(Lower(rob), NotAvailable), 40,
                Lit("Add robots.txt"),
                Lit("Create a robots.txt file in root directory with rules"), 15),
    Then(Bucket(~Contains(Lower(smap), NotAvailable), 30,
                Lit("Add sitemap.xml"),
                Lit("Generate sitemap.xml and submit to Google Search Console"), 15),
    Then(Bucket(Len(viewport) > 0, 20,
                Lit("Add viewport meta for mobile-friendliness"),
                Lit("<meta name=\"viewport\" content=\"width=device-width, initial-scale=1.0\">"), 10),
         Bucket(Len(doc.jsonld) > 0, 20,
                Lit("Add structured data / schema (JSON-LD recommended)"),
                Lit("<script type=\"application/ld+json\">\n{\n  \"@context\": \"https://schema.org\",\n  \"@type\": \"WebPage\",\n  \"name\": \"Your Page Name\",\n  \"url\": \"https://yourwebsite.com/page-url\"\n}\n</script>"), 10))))

calculate_technical_score(rob, smap, viewport, doc) ==
    Then(Bucket(~Contains(Lower(rob), NotAvailable), 30,
                Lit("Add robots.txt"),
                Lit("Create a robots.txt file in root directory with rules"), 15),
    Then(Bucket(~Contains(Lower(smap), NotAvailable), 30,
                Lit("Add sitemap.xml"),
                Lit("Generate sitemap.xml and submit to Google Search Console"), 15),
    Then(Bucket(Len(viewport) > 0, 20,
                Lit("Add viewport meta for mobile-friendliness"),
                Lit("<meta name=\"viewport\" content=\"width=device-width, initial-scale=1.0\">"), 10),
         Bucket(Len(doc.jsonld) > 0, 20,
                Lit("Add structured data / schema (JSON-LD recommended)"),
                Lit("<script type=\"application/ld+json\">\n{\n  \"@context\": \"https://schema.org\",\n  \"@type\": \"WebPage\",\n  \"name\": \"Your Page Name\",\n  \"url\": \"https://yourwebsite.com/page-url\"\n}\n</script>"), 10))))

calculate_offpage_score ==
    [score |-> 50,
     suggestions |-> <<Lit("Check backlinks and domain authority")>>,
     improvements |-> <<[fix |-> Lit("Acquire high-quality backlinks from authoritative sites"),
                         boost |-> 20]>>]

\* the f-strings carry the keyword and the density; the two-decimal
\* rendering of the density is left to the display
calculate_semantic_score(text, keyword) ==
    LET keyword_count == Count(Lower(text), Lower(keyword))
        words   == SplitLen(text)
        density == IF words # 0
                   THEN FloatMul100(FloatDiv(keyword_count, words))
                   ELSE FloatZero
        twice   == FloatMul2(density)
        score   == IF FloatLT(twice, 100) THEN FloatTrunc(twice) ELSE 100
    IN [score |-> score,
        density |-> density,
        suggestions |->
            IF FloatLT(density, 1)
            THEN <<Fmt("Use keyword '{main_keyword}' more frequently (density: {density:.2f}%)",
                       <<keyword, density>>)>>
            ELSE IF FloatGT(density, 5)
            THEN <<Fmt("Keyword '{main_keyword}' density too high (density: {density:.2f}%)",
                       <<keyword, density>>)>>
            ELSE <<>>,
        improvements |->
            IF FloatLT(density, 1)
            THEN <<[fix |-> Fmt("Include '{main_keyword}' in H1, H2, meta description, first paragraph",
                                <<keyword>>),
                    boost |-> 10]>>
            ELSE IF FloatGT(density, 5)
            THEN <<[fix |-> Lit("Reduce keyword stuffing, use synonyms/LSI keywords"),
                    boost |-> 5]>>
            ELSE <<>>]

estimate_serp_rank_above(score) ==
    IF score > 90 THEN "Estimated SERP Rank: 1-3"
    ELSE IF score > 80 THEN "Estimated SERP Rank: 4-10"
    ELSE IF score > 70 THEN "Estimated SERP Rank: 11-20"
    ELSE IF score > 60 THEN "Estimated SERP Rank: 21-50"
    ELSE "Estimated SERP Rank: 50+"

estimate_serp_rank(score) ==
    IF score >= 90 THEN "Estimated SERP Rank: 1-3"
    ELSE IF score >= 80 THEN "Estimated SERP Rank: 4-10"
    ELSE IF score >= 70 THEN "Estimated SERP Rank: 11-20"
    ELSE IF score >= 60 THEN "Estimated SERP Rank: 21-50"
    ELSE "Estimated SERP Rank: 50+"

\* round((a + b + c + d) / 4)
overall_of(a, b, c, d) == PyRoundQuarter(a + b + c + d)

\* sorted(items, key=lambda x: x["boost"], reverse=True): a stable sort;
\* with reverse=True items of equal key keep their original order
InsertByBoost(sorted, x) ==
    LET n == Cardinality({i \in 1..Len(sorted) : sorted[i].boost >= x.boost})
    IN SubSeq(sorted, 1, n) \o <<x>> \o SubSeq(sorted, n + 1, Len(sorted))

InsertByBoostBefore(sorted, x) ==
    LET n == Cardinality({i \in 1..Len(sorted) : sorted[i].boost > x.boost})
    IN SubSeq(sorted, 1, n) \o <<x>> \o SubSeq(sorted, n + 1, Len(sorted))

RECURSIVE sorted_by_boost_unstable(_)
sorted_by_boost_unstable(items) ==
    IF items = <<>> THEN <<>>
    ELSE InsertByBoostBefore(sorted_by_boost_unstable(SubSeq(items, 1, Len(items) - 1)),
                             items[Len(items)])

RECURSIVE sorted_by_boost(_)
sorted_by_boost(items) ==
    IF items = <<>> THEN <<>>
    ELSE InsertByBoost(sorted_by_boost(SubSeq(items, 1, Len(items) - 1)),
                       items[Len(items)])

----------------------------------------------------------------------------
(* Values of the handler's variables *)

\* Python None and a bound value
NoneStr == [isNone |-> TRUE, val |-> <<>>]
NoneInt == [isNone |-> TRUE, val |-> 0]
Some(v) == [isNone |-> FALSE, val |-> v]

NoResult == [isNone |-> TRUE,
             val |-> [score |-> 0, suggestions |-> <<>>, improvements |-> <<>>]]

\* the parsed document: what the BeautifulSoup queries of the handler return
NoTitle == [present |-> FALSE, string |-> NoneStr]
NoMetaEl == [present |-> FALSE, has_content |-> FALSE, content |-> <<>>]
NoLinkEl == [present |-> FALSE, has_href |-> FALSE, href |-> <<>>]

EmptyDoc == [title |-> NoTitle, description |-> NoMetaEl, canonical |-> NoLinkEl,
             viewport |-> NoMetaEl, h1 |-> <<>>, h2 |-> <<>>, h3 |-> <<>>,
             text |-> <<>>, jsonld |-> <<>>]

EmptyMeta == [title |-> <<>>, description |-> <<>>, canonical |-> <<>>, viewport |-> <<>>]
EmptyHeadings == [h1 |-> <<>>, h2 |-> <<>>, h3 |-> <<>>]

\* an HTML text: whether it is the empty string, and the document it parses to
EmptyBody == [empty |-> TRUE, doc |-> EmptyDoc]
NoneHtml == [isNone |-> TRUE, val |-> EmptyBody]

\* the limit of the slices text[:1000]
BodyLimit == 1000

RobotsFallback == <<"r","o","b","o","t","s",".","t","x","t"," ">> \o NotAvailable
SitemapFallback == <<"s","i","t","e","m","a","p",".","x","m","l"," ">> \o NotAvailable

----------------------------------------------------------------------------
(* Helper functions of the handler *)

\* requests.get(...) followed by raise_for_status(): the text of a 2xx
\* response, None after an exception
get_html(resp) ==
    IF resp.kind = "response" /\ resp.status < 400 THEN Some(resp.body) ELSE NoneHtml

\* raised: soup.title.string is None (.strip() of None), or the canonical
\* link has no href (canonical["href"])
extract_meta(doc) ==
    IF doc.title.present /\ doc.title.string.isNone
    THEN [raised |-> TRUE, value |-> EmptyMeta]
    ELSE IF doc.canonical.present /\ ~doc.canonical.has_href
    THEN [raised |-> TRUE, value |-> EmptyMeta]
    ELSE [raised |-> FALSE,
          value |->
            [title |-> IF doc.title.present THEN Strip(doc.title.string.val) ELSE <<>>,
             description |-> IF doc.description.present /\ doc.description.has_content
                             THEN doc.description.content ELSE <<>>,
             canonical |-> IF doc.canonical.present THEN doc.canonical.href ELSE <<>>,
             viewport |-> IF doc.viewport.present /\ doc.viewport.has_content
                          THEN doc.viewport.content ELSE <<>>]]

get_headings(doc) ==
    [h1 |-> [i \in 1..Len(doc.h1) |-> Strip(doc.h1[i])],
     h2 |-> [i \in 1..Len(doc.h2) |-> Strip(doc.h2[i])],
     h3 |-> [i \in 1..Len(doc.h3) |-> Strip(doc.h3[i])]]

\* total and text of get_word_stats (the top-20 table is display only)
get_word_stats(doc) == [total |-> WordsLen(doc.text), text |-> doc.text]

\* one of the two fetches of robots_and_sitemap: any response's text, cut to
\* 1000 characters; the fallback only after an exception of requests.get
fetch_or_fallback(resp, fallback) ==
    IF resp.kind = "response" THEN Prefix(resp.body, BodyLimit) ELSE fallback

robots_and_sitemap(r1, r2) ==
    [robots |-> fetch_or_fallback(r1, RobotsFallback),
     sitemap |-> fetch_or_fallback(r2, SitemapFallback)]

\* api: the outcome of the PageSpeed request, score in hundredths
pagespeed_api(api) ==
    IF api.kind = "score" THEN Some(api.score) ELSE NoneInt

\* probe: the outcome of the timing request, elapsed in hundredths of a second
simple_speed_test(probe) ==
    IF probe.kind = "response" /\ probe.status < 400 THEN Some(probe.elapsed) ELSE NoneInt

\* Python truth value of a speed result
Truthy(x) == ~x.isNone /\ x.val # 0

----------------------------------------------------------------------------
(* What the network and the page can be *)

Seo == <<"s","e","o">>
Url == <<"h","t","t","p","s",":","/","/","e","x",".","c","o","m","/">>
ViewportContent == <<"w","i","d","t","h","=","d","e","v","i","c","e","-","w","i","d","t","h">>
RobotsBody == <<"U","s","e","r","-","a","g","e","n","t",":"," ","*">>
SitemapBody == <<"<","u","r","l","s","e","t",">","<","/","u","r","l","s","e","t",">">>
NotFoundBody == <<"4","0","4"," ","N","o","t"," ","F","o","u","n","d">>
HeadingText == <<" ","S","E","O"," ","T","i","p","s"," ">>

\* sequences over S of length 0..n
SeqsUpTo(S, n) == UNION {[1..k -> S] : k \in 0..n}

\* a text of n tokens separated by single spaces, the first k of them w
\* and the others v (Len(w) = Len(v))
Build(w, v, k, n) ==
    [i \in 1..(n * (Len(w) + 1) - 1) |->
        LET t == (i - 1) \div (Len(w) + 1)
            j == ((i - 1) % (Len(w) + 1)) + 1
        IN IF j = Len(w) + 1 THEN " "
           ELSE IF t < k THEN w[j] ELSE v[j]]

\* a JSON-LD script block: its text and whether json.loads accepts it
ValidBlock == [string |-> Some(<<"{","}">>), valid |-> TRUE]
InvalidBlock == [string |-> Some(<<"{">>), valid |-> FALSE]
BlockSeqs == SeqsUpTo({ValidBlock, InvalidBlock}, MaxBlocks)

HeadingLists == SeqsUpTo({HeadingText}, MaxHeadings)

TitleEls == {NoTitle,
             [present |-> TRUE, string |-> NoneStr],
             [present |-> TRUE, string |-> Some(<<" ">> \o Rep("t", 10) \o <<"\n">>)]}
MetaEls(content) == {NoMetaEl,
                     [present |-> TRUE, has_content |-> FALSE, content |-> <<>>],
                     [present |-> TRUE, has_content |-> TRUE, content |-> content]}
LinkEls == {NoLinkEl,
            [present |-> TRUE, has_href |-> FALSE, href |-> <<>>],
            [present |-> TRUE, has_href |-> TRUE, href |-> Url]}

PageTexts == {<<>>, Build(Seo, <<"w","e","b">>, 1, 3)}

Docs == [title : TitleEls, description : MetaEls(Rep("d", 50)), canonical : LinkEls,
         viewport : {NoMetaEl, [present |-> TRUE, has_content |-> TRUE,
                                content |-> ViewportContent]},
         h1 : HeadingLists, h2 : {<<>>}, h3 : {<<>>},
         text : PageTexts, jsonld : BlockSeqs]

\* outcomes of requests.get: an exception (connection error, timeout) or a
\* response with a status and a text
Failed == [kind |-> "exception", status |-> 0, body |-> <<>>]
Response(status, body) == [kind |-> "response", status |-> status, body |-> body]

\* net: what the network answered to the two requests of robots_and_sitemap
NotAsked == [kind |-> "none", status |-> 0, body |-> <<>>]
NoAnswers == [robots |-> NotAsked, sitemap |-> NotAsked]

PageOutcomes ==
    {[kind |-> "exception", status |-> 0, body |-> EmptyBody],
     [kind |-> "response", status |-> 404, body |-> EmptyBody],
     [kind |-> "response", status |-> 200, body |-> EmptyBody]}
    \cup {[kind |-> "response", status |-> 200, body |-> [empty |-> FALSE, doc |-> d]] :
            d \in Docs}

RobotsOutcomes == {Failed, Response(200, RobotsBody), Response(404, NotFoundBody),
                   Response(200, Rep("#", BodyLimit + 1))}
SitemapOutcomes == {Failed, Response(200, SitemapBody), Response(404, NotFoundBody)}

ApiOutcomes == {[kind |-> "exception", score |-> 0],
                [kind |-> "malformed", score |-> 0],
                [kind |-> "score", score |-> 0],
                [kind |-> "score", score |-> 93]}
ProbeOutcomes == {[kind |-> "exception", status |-> 0, elapsed |-> 0],
                  [kind |-> "response", status |-> 500, elapsed |-> 42],
                  [kind |-> "response", status |-> 200, elapsed |-> 42]}

Keywords == {Seo}

----------------------------------------------------------------------------
(* The "Analyze SEO" handler, lines 196-256 *)

Init ==
    /\ pc = "idle"
    /\ html = NoneHtml
    /\ soup = EmptyDoc
    /\ meta = EmptyMeta
    /\ headings = EmptyHeadings
    /\ total_words = 0
    /\ full_text = <<>>
    /\ main_keyword = Seo
    /\ robots = <<>>
    /\ sitemap = <<>>
    /\ speed_score = NoneInt
    /\ onpage = NoResult
    /\ technical = NoResult
    /\ offpage = NoResult
    /\ semantic = NoResult
    /\ overall_score = 0
    /\ serp_estimate = ""
    /\ roadmap = <<>>
    /\ fetched = <<>>
    /\ net = NoAnswers
    /\ ui = {}

\* lines 196-204: the button is pressed, the page is fetched and parsed
Analyze ==
    /\ pc = "idle"
    /\ \E kw \in Keywords, resp \in PageOutcomes :
        LET h == get_html(resp)
        IN /\ main_keyword' = kw
           /\ html' = h
           /\ fetched' = Append(fetched, "page")
           /\ IF h.isNone
              THEN /\ ui' = ui \cup {"error: Failed to fetch website HTML",
                                     "error: Failed to fetch website."}
                   /\ soup' = soup
                   /\ pc' = "done"
              ELSE IF h.val.empty
              THEN /\ ui' = ui \cup {"error: Failed to fetch website."}
                   /\ soup' = soup
                   /\ pc' = "done"
              ELSE /\ ui' = ui
                   /\ soup' = h.val.doc
                   /\ pc' = "extract_meta"
    /\ UNCHANGED <<net, meta, headings, total_words, full_text, robots, sitemap,
                   speed_score, onpage, technical, offpage, semantic,
                   overall_score, serp_estimate, roadmap>>

\* line 205
ExtractMeta ==
    /\ pc = "extract_meta"
    /\ LET r == extract_meta(soup)
       IN IF r.raised
          THEN /\ pc' = "crashed"
               /\ ui' = ui \cup {"exception: extract_meta"}
               /\ meta' = meta
          ELSE /\ pc' = "get_headings"
               /\ meta' = r.value
               /\ ui' = ui
    /\ UNCHANGED <<net, html, soup, headings, total_words, full_text, main_keyword,
                   robots, sitemap, speed_score, onpage, technical, offpage,
                   semantic, overall_score, serp_estimate, roadmap, fetched>>

\* lines 206-207
Extract ==
    /\ pc = "get_headings"
    /\ headings' = get_headings(soup)
    /\ total_words' = get_word_stats(soup).total
    /\ full_text' = get_word_stats(soup).text
    /\ pc' = "robots_and_sitemap"
    /\ UNCHANGED <<net, html, soup, meta, main_keyword, robots, sitemap, speed_score,
                   onpage, technical, offpage, semantic, overall_score,
                   serp_estimate, roadmap, fetched, ui>>

\* line 208
RobotsAndSitemap ==
    /\ pc = "robots_and_sitemap"
    /\ \E r1 \in RobotsOutcomes, r2 \in SitemapOutcomes :
        /\ robots' = robots_and_sitemap(r1, r2).robots
        /\ sitemap' = robots_and_sitemap(r1, r2).sitemap
        /\ net' = [robots |-> r1, sitemap |-> r2]
    /\ fetched' = fetched \o <<"robots.txt", "sitemap.xml">>
    /\ pc' = "speed"
    /\ UNCHANGED <<html, soup, meta, headings, total_words, full_text,
                   main_keyword, speed_score, onpage, technical, offpage,
                   semantic, overall_score, serp_estimate, roadmap, ui>>

\* line 209: pagespeed_api(url) or simple_speed_test(url)
Speed ==
    /\ pc = "speed"
    /\ \E api \in ApiOutcomes, probe \in ProbeOutcomes :
        IF Truthy(pagespeed_api(api))
        THEN /\ speed_score' = pagespeed_api(api)
             /\ fetched' = Append(fetched, "pagespeed")
        ELSE /\ speed_score' = simple_speed_test(probe)
             /\ fetched' = fetched \o <<"pagespeed", "probe">>
    /\ pc' = "onpage"
    /\ UNCHANGED <<net, html, soup, meta, headings, total_words, full_text,
                   main_keyword, robots, sitemap, onpage, technical, offpage,
                   semantic, overall_score, serp_estimate, roadmap, ui>>

\* line 212
CalcOnPage ==
    /\ pc = "onpage"
    /\ onpage' = Some(calculate_onpage_score(meta, headings, total_words))
    /\ pc' = "technical"
    /\ UNCHANGED <<net, html, soup, meta, headings, total_words, full_text,
                   main_keyword, robots, sitemap, speed_score, technical,
                   offpage, semantic, overall_score, serp_estimate, roadmap,
                   fetched, ui>>

\* line 213
CalcTechnical ==
    /\ pc = "technical"
    /\ technical' = Some(calculate_technical_score(robots, sitemap, meta.viewport, soup))
    /\ pc' = "offpage"
    /\ UNCHANGED <<net, html, soup, meta, headings, total_words, full_text,
                   main_keyword, robots, sitemap, speed_score, onpage,
                   offpage, semantic, overall_score, serp_estimate, roadmap,
                   fetched, ui>>

\* line 214
CalcOffPage ==
    /\ pc = "offpage"
    /\ offpage' = Some(calculate_offpage_score)
    /\ pc' = "semantic"
    /\ UNCHANGED <<net, html, soup, meta, headings, total_words, full_text,
                   main_keyword, robots, sitemap, speed_score, onpage,
                   technical, semantic, overall_score, serp_estimate, roadmap,
                   fetched, ui>>

\* line 215
CalcSemantic ==
    /\ pc = "semantic"
    /\ semantic' = Some(calculate_semantic_score(full_text, main_keyword))
    /\ pc' = "aggregate"
    /\ UNCHANGED <<net, html, soup, meta, headings, total_words, full_text,
                   main_keyword, robots, sitemap, speed_score, onpage,
                   technical, offpage, overall_score, serp_estimate, roadmap,
                   fetched, ui>>

\* line 217
Aggregate ==
    /\ pc = "aggregate"
    /\ overall_score' = overall_of(onpage.val.score, technical.val.score,
                                   offpage.val.score, semantic.val.score)
    /\ pc' = "serp"
    /\ UNCHANGED <<net, html, soup, meta, headings, total_words, full_text,
                   main_keyword, robots, sitemap, speed_score, onpage,
                   technical, offpage, semantic, serp_estimate, roadmap,
                   fetched, ui>>

\* line 218
EstimateRank ==
    /\ pc = "serp"
    /\ serp_estimate' = estimate_serp_rank(overall_score)
    /\ pc' = "display"
    /\ UNCHANGED <<net, html, soup, meta, headings, total_words, full_text,
                   main_keyword, robots, sitemap, speed_score, onpage,
                   technical, offpage, semantic, overall_score, roadmap,
                   fetched, ui>>

\* lines 221-227
DisplayScores ==
    /\ pc = "display"
    /\ ui' = ui \cup {"SEO Scores"}
    /\ pc' = "roadmap"
    /\ UNCHANGED <<net, html, soup, meta, headings, total_words, full_text,
                   main_keyword, robots, sitemap, speed_score, onpage,
                   technical, offpage, semantic, overall_score, serp_estimate,
                   roadmap, fetched>>

\* lines 230-234
BuildRoadmap ==
    /\ pc = "roadmap"
    /\ roadmap' = sorted_by_boost(onpage.val.improvements \o technical.val.improvements
                                  \o offpage.val.improvements \o semantic.val.improvements)
    /\ ui' = ui \cup {"SEO Roadmap"}
    /\ pc' = "details"
    /\ UNCHANGED <<net, html, soup, meta, headings, total_words, full_text,
                   main_keyword, robots, sitemap, speed_score, onpage,
                   technical, offpage, semantic, overall_score, serp_estimate,
                   fetched>>

\* lines 237-250
RenderDetails ==
    /\ pc = "details"
    /\ ui' = ui \cup {"Detailed On-Page SEO", "Detailed Technical SEO"}
               \cup (IF Truthy(speed_score) THEN {"Page Load Time / Speed Score"}
                     ELSE {"warning: Could not determine page speed"})
    /\ pc' = "jsonld"
    /\ UNCHANGED <<net, html, soup, meta, headings, total_words, full_text,
                   main_keyword, robots, sitemap, speed_score, onpage,
                   technical, offpage, semantic, overall_score, serp_estimate,
                   roadmap, fetched>>

\* lines 251-256: json.loads raises on the first block that is not JSON
RenderJsonLd ==
    /\ pc = "jsonld"
    /\ IF soup.jsonld = <<>>
       THEN /\ ui' = ui \cup {"No structured data found"}
            /\ pc' = "done"
       ELSE IF \E i \in 1..Len(soup.jsonld) : ~soup.jsonld[i].valid
       THEN /\ ui' = ui \cup {"exception: json.loads"}
            /\ pc' = "crashed"
       ELSE /\ ui' = ui \cup {"Structured Data"}
            /\ pc' = "done"
    /\ UNCHANGED <<net, html, soup, meta, headings, total_words, full_text,
                   main_keyword, robots, sitemap, speed_score, onpage,
                   technical, offpage, semantic, overall_score, serp_estimate,
                   roadmap, fetched>>

Next ==
    \/ Analyze
    \/ ExtractMeta
    \/ Extract
    \/ RobotsAndSitemap
    \/ Speed
    \/ CalcOnPage
    \/ CalcTechnical
    \/ CalcOffPage
    \/ CalcSemantic
    \/ Aggregate
    \/ EstimateRank
    \/ DisplayScores
    \/ BuildRoadmap
    \/ RenderDetails
    \/ RenderJsonLd

Spec == Init /\ [][Next]_vars

----------------------------------------------------------------------------
(* The scoring part of the handler, lines 212-234, from every input:       *)
(* the state after line 209 with the extracted values drawn from sets that *)
(* straddle every threshold of the scoring functions                       *)

TitleLens == {0, 9, 10, 11, 59, 60, 61}
DescLens == {0, 49, 50, 51, 159, 160, 161}
WordTotals == {0, 299, 300, 301}

UpperChar(ch) ==
    IF \E i \in 1..26 : LowerChars[i] = ch
    THEN UpperChars[CHOOSE i \in 1..26 : LowerChars[i] = ch]
    ELSE ch
Upper(s) == [i \in 1..Len(s) |-> UpperChar(s[i])]

RobotsTexts == {RobotsFallback, Upper(RobotsFallback), RobotsBody, <<>>, NotFoundBody,
                <<"#"," ">> \o NotAvailable \o <<"\n">> \o RobotsBody,
                <<"S","o","r","r","y",","," ","N","o","t"," ","A","v","a","i","l","a","b","l","e">>,
                <<"n","o","t","a","v","a","i","l","a","b","l","e">>}
SitemapTexts == {SitemapFallback, SitemapBody, NotFoundBody}

GoodMeta == [title |-> Rep("t", 10), description |-> Rep("d", 50),
             canonical |-> Url, viewport |-> ViewportContent]
GoodDoc == [EmptyDoc EXCEPT !.jsonld = <<ValidBlock>>]

TextChars == {"s", "S", " "}
WordFills == {3, 7, MaxWords}

\* texts and keywords character by character, and texts of up to MaxWords
\* tokens of which some are the keyword
SemanticInputs ==
    (SeqsUpTo(TextChars, MaxTextLen) \X SeqsUpTo(TextChars, MaxKeywordLen))
    \cup {<<Build(Seo, <<"w","e","b">>, k, n), Seo>> : k \in 0..MaxWords, n \in WordFills}
    \cup {<<Build(Seo, <<"w","e","b">>, k, 3), Upper(Seo)>> : k \in 0..3}

FewSemanticInputs ==
    {<<Build(Seo, <<"w","e","b">>, k, 7), Seo>> : k \in {0, 1, 2, 7}} \cup {<<<<>>, <<>>>>}

BaseInput == [meta |-> GoodMeta, headings |-> [EmptyHeadings EXCEPT !.h1 = <<HeadingText>>],
              total_words |-> 300, robots |-> RobotsBody, sitemap |-> SitemapBody,
              soup |-> GoodDoc, full_text |-> Build(Seo, <<"w","e","b">>, 1, 20),
              main_keyword |-> Seo]

OnPageInputs ==
    {[BaseInput EXCEPT !.meta = [title |-> Rep("t", tl), description |-> Rep("d", dl),
                                 canonical |-> can, viewport |-> ViewportContent]] :
        tl \in TitleLens, dl \in DescLens, can \in {<<>>, Url}}
    \cup {[BaseInput EXCEPT !.headings = [h1 |-> a, h2 |-> b, h3 |-> c],
                            !.total_words = w] :
        a \in HeadingLists, b \in HeadingLists, c \in HeadingLists, w \in WordTotals}

TechnicalInputs ==
    {[BaseInput EXCEPT !.robots = r, !.sitemap = m, !.meta.viewport = v,
                       !.soup.jsonld = j] :
        r \in RobotsTexts, m \in SitemapTexts, v \in {<<>>, ViewportContent},
        j \in BlockSeqs}

SemanticOnlyInputs ==
    {[BaseInput EXCEPT !.full_text = p[1], !.main_keyword = p[2]] : p \in SemanticInputs}

MixedInputs ==
    {[meta |-> [title |-> Rep("t", tl), description |-> Rep("d", dl),
                canonical |-> can, viewport |-> v],
      headings |-> [h1 |-> a, h2 |-> <<>>, h3 |-> <<>>],
      total_words |-> w, robots |-> r, sitemap |-> m,
      soup |-> [EmptyDoc EXCEPT !.jsonld = j],
      full_text |-> p[1], main_keyword |-> p[2]] :
        tl \in {9, 10}, dl \in {49, 50}, can \in {<<>>, Url}, v \in {<<>>, ViewportContent},
        a \in {<<>>, <<HeadingText>>}, w \in {299, 300}, r \in {RobotsFallback, RobotsBody},
        m \in {SitemapFallback, SitemapBody}, j \in {<<>>, <<ValidBlock>>},
        p \in FewSemanticInputs}

ScoringInputs == OnPageInputs \cup TechnicalInputs \cup SemanticOnlyInputs \cup MixedInputs

InitScoring ==
    /\ pc = "onpage"
    /\ \E in \in ScoringInputs :
        /\ meta = in.meta
        /\ headings = in.headings
        /\ total_words = in.total_words
        /\ robots = in.robots
        /\ sitemap = in.sitemap
        /\ soup = in.soup
        /\ full_text = in.full_text
        /\ main_keyword = in.main_keyword
    /\ html = Some([empty |-> FALSE, doc |-> soup])
    /\ speed_score = NoneInt
    /\ onpage = NoResult
    /\ technical = NoResult
    /\ offpage = NoResult
    /\ semantic = NoResult
    /\ overall_score = 0
    /\ serp_estimate = ""
    /\ roadmap = <<>>
    /\ fetched = <<"page", "robots.txt", "sitemap.xml", "pagespeed", "probe">>
    /\ net = [robots |-> IF robots = RobotsFallback THEN Failed ELSE Response(200, robots),
              sitemap |-> IF sitemap = SitemapFallback THEN Failed ELSE Response(200, sitemap)]
    /\ ui = {}

NextScoring ==
    \/ CalcOnPage
    \/ CalcTechnical
    \/ CalcOffPage
    \/ CalcSemantic
    \/ Aggregate
    \/ EstimateRank
    \/ DisplayScores
    \/ BuildRoadmap

SpecScoring == InitScoring /\ [][NextScoring]_vars

----------------------------------------------------------------------------
(* estimate_serp_rank on every score of the 0..100 scale; the handler's own *)
(* overall scores stop at 88 because the off-page score is the constant 50  *)

InitRank ==
    /\ pc = "serp"
    /\ overall_score \in 0..MaxOverall
    /\ html = NoneHtml
    /\ soup = EmptyDoc
    /\ meta = EmptyMeta
    /\ headings = EmptyHeadings
    /\ total_words = 0
    /\ full_text = <<>>
    /\ main_keyword = Seo
    /\ robots = <<>>
    /\ sitemap = <<>>
    /\ speed_score = NoneInt
    /\ onpage = NoResult
    /\ technical = NoResult
    /\ offpage = NoResult
    /\ semantic = NoResult
    /\ serp_estimate = ""
    /\ roadmap = <<>>
    /\ fetched = <<>>
    /\ net = NoAnswers
    /\ ui = {}

NextRank == EstimateRank

SpecRank == InitRank /\ [][NextRank]_vars

----------------------------------------------------------------------------
(* Properties *)

Min(a, b) == IF a < b THEN a ELSE b

\* line 217 has been executed
Aggregated == pc \in {"serp", "display", "roadmap", "details", "jsonld", "done"}
               /\ ~onpage.isNone /\ ~semantic.isNone

TitleInRange == 10 <= Len(meta.title) /\ Len(meta.title) <= 60
DescInRange == 50 <= Len(meta.description) /\ Len(meta.description) <= 160

OnPageConditions ==
    <<TitleInRange, DescInRange, headings.h1 # <<>>, total_words >= 300,
      meta.canonical # <<>> >>

\* C1: the on-page score is 20 times the number of the five conditions that
\* hold; the title suggestion is absent iff 10 <= len(title) <= 60, the
\* description suggestion iff 50 <= len(description) <= 160, and an empty H1
\* list always draws the H1 suggestion, whatever the H2 and H3 lists hold.
C1_OnPageScore ==
    ~onpage.isNone =>
        /\ onpage.val.score = 20 * Cardinality({i \in 1..5 : OnPageConditions[i]})
        /\ TitleInRange <=>
             Lit("Title length should be 10-60 characters") \notin Range(onpage.val.suggestions)
        /\ DescInRange <=>
             Lit("Meta description should be 50-160 characters") \notin Range(onpage.val.suggestions)
        /\ headings.h1 = <<>> =>
             Lit("Add at least one H1 heading") \in Range(onpage.val.suggestions)

C1_Witness ==
    /\ ~onpage.isNone
    /\ Len(meta.title) = 10
    /\ Len(meta.description) = 50
    /\ headings.h1 = <<>>
    /\ headings.h2 # <<>>
    /\ headings.h3 # <<>>
    /\ total_words = 299
    /\ meta.canonical # <<>>
    /\ onpage.val.score = 60

\* C2: the robots bucket of the technical score is withheld exactly when the
\* robots text is "robots.txt not available" in any letter case; every other
\* robots text earns the 30 points.
C2_RobotsBucketBySentinelEquality ==
    ~technical.isNone =>
        (Lit("Add robots.txt") \in Range(technical.val.suggestions)
            <=> Lower(robots) = RobotsFallback)

\* C3: with k the occurrences of the lower-cased keyword in the lower-cased
\* text and n the whitespace-delimited tokens, the semantic score is
\* min(100, floor(200*k/n)) when n > 0; when n = 0 the score and the density
\* are 0 and the suggestion is the "more frequently" one.
C3_SemanticScoreExact ==
    ~semantic.isNone =>
        LET k == Count(Lower(full_text), Lower(main_keyword))
            n == SplitLen(full_text)
        IN IF n > 0
           THEN semantic.val.score = Min(100, (200 * k) \div n)
           ELSE /\ semantic.val.score = 0
                /\ semantic.val.density = FloatZero
                /\ Len(semantic.val.suggestions) = 1
                /\ semantic.val.suggestions[1].fmt =
                     "Use keyword '{main_keyword}' more frequently (density: {density:.2f}%)"

ScoreSum == onpage.val.score + technical.val.score + offpage.val.score + semantic.val.score

Perms4 == {p \in [1..4 -> 1..4] : \A i, j \in 1..4 : i # j => p[i] # p[j]}

\* C4: the overall score is the mean of the four category scores rounded
\* half to even: with S their sum, floor(S/4) when S mod 4 is 0 or 1,
\* floor(S/4)+1 when it is 3, the even one of the two when it is 2; and it is
\* the same for every order of the four scores.
C4_OverallRoundHalfEven ==
    Aggregated =>
        LET S == ScoreSum
            q == S \div 4
            sc == <<onpage.val.score, technical.val.score, offpage.val.score,
                    semantic.val.score>>
        IN /\ S % 4 \in {0, 1} => overall_score = q
           /\ S % 4 = 3 => overall_score = q + 1
           /\ S % 4 = 2 => overall_score \in {q, q + 1} /\ overall_score % 2 = 0
           /\ \A p \in Perms4 :
                overall_of(sc[p[1]], sc[p[2]], sc[p[3]], sc[p[4]]) = overall_score

C4_Witness ==
    /\ Aggregated
    /\ ScoreSum % 4 = 2
    /\ (ScoreSum \div 4) % 2 = 0
    /\ overall_score = ScoreSum \div 4
    /\ onpage.val.score # semantic.val.score

\* a bucket label's place, best first
RankPlace(label) ==
    CASE label = "Estimated SERP Rank: 1-3" -> 1
      [] label = "Estimated SERP Rank: 4-10" -> 2
      [] label = "Estimated SERP Rank: 11-20" -> 3
      [] label = "Estimated SERP Rank: 21-50" -> 4
      [] label = "Estimated SERP Rank: 50+" -> 5

\* C5: the rank bucket is a step function of the overall score with
\* inclusive lower bounds 90, 80, 70, 60, and no lower score gets a better
\* bucket than a higher one.
C5_RankBuckets ==
    pc = "display" =>
        /\ overall_score >= 90 => serp_estimate = "Estimated SERP Rank: 1-3"
        /\ overall_score \in 80..89 => serp_estimate = "Estimated SERP Rank: 4-10"
        /\ overall_score \in 70..79 => serp_estimate = "Estimated SERP Rank: 11-20"
        /\ overall_score \in 60..69 => serp_estimate = "Estimated SERP Rank: 21-50"
        /\ overall_score < 60 => serp_estimate = "Estimated SERP Rank: 50+"
        /\ \A lower \in 0..overall_score :
             RankPlace(estimate_serp_rank(lower)) >= RankPlace(serp_estimate)

C5_Witness ==
    /\ pc = "display"
    /\ overall_score = 90
    /\ serp_estimate = "Estimated SERP Rank: 1-3"

Improvements ==
    onpage.val.improvements \o technical.val.improvements
        \o offpage.val.improvements \o semantic.val.improvements

Boosts(items) == [i \in 1..Len(items) |-> items[i].boost]

Occurrences(items, x) == Cardinality({i \in 1..Len(items) : items[i] = x})

\* C6: the roadmap is a permutation of the four improvement lists
\* concatenated in the order on-page, technical, off-page, semantic, in
\* descending order of boost, entries of equal boost in their order in the
\* concatenation.
C6_RoadmapStableDescending ==
    pc \in {"details", "jsonld", "done"} /\ ~onpage.isNone =>
        /\ Len(roadmap) = Len(Improvements)
        /\ \A i \in 1..Len(roadmap) :
             Occurrences(roadmap, roadmap[i]) = Occurrences(Improvements, roadmap[i])
        /\ \A i \in 1..(Len(roadmap) - 1) : roadmap[i].boost >= roadmap[i+1].boost
        /\ \A b \in Range(Boosts(roadmap)) :
             SelectSeq(roadmap, LAMBDA x : x.boost = b)
               = SelectSeq(Improvements, LAMBDA x : x.boost = b)

C6_Witness ==
    /\ pc = "details"
    /\ Boosts(Improvements) = <<10, 15, 20, 10>>
    /\ Boosts(roadmap) = <<20, 15, 10, 10>>
    /\ roadmap[3] = Improvements[1]
    /\ roadmap[4] = Improvements[4]
    /\ roadmap[3] # roadmap[4]

\* C7: every category score that has been computed is an integer of 0..100,
\* and so is the overall score.
C7_ScoresInRange ==
    /\ \A r \in {onpage, technical, offpage, semantic} :
         ~r.isNone => r.val.score \in 0..100
    /\ Aggregated => overall_score \in 0..100

C7_Witness ==
    /\ Aggregated
    /\ onpage.val.score = 100
    /\ technical.val.score = 100
    /\ semantic.val.score = 100
    /\ overall_score = 88

\* C8: a failed page fetch ends the run with nothing extracted, nothing else
\* fetched and nothing scored; after a successful page fetch no later failure
\* stops the run of a document that extract_meta accepts, an invalid JSON-LD
\* block included.
C8_OnlyPageFetchIsFatal ==
    /\ html.isNone /\ pc # "idle" =>
         /\ pc = "done"
         /\ fetched = <<"page">>
         /\ meta = EmptyMeta /\ headings = EmptyHeadings
         /\ onpage.isNone /\ technical.isNone /\ offpage.isNone /\ semantic.isNone
    /\ ~html.isNone /\ ~extract_meta(soup).raised => pc # "crashed"

FetchFailed(resp) == resp.kind = "exception" \/ resp.status \notin 200..299

\* C9: once robots_and_sitemap has run, an artifact whose fetch failed
\* (exception or non-2xx status) is its fallback string, whatever happened to
\* the other artifact, and a body is passed on, cut to 1000 characters, only
\* for a fetch that succeeded.
C9_FallbackOnEveryFetchFailure ==
    net # NoAnswers =>
        /\ FetchFailed(net.robots) => robots = RobotsFallback
        /\ FetchFailed(net.sitemap) => sitemap = SitemapFallback
        /\ ~FetchFailed(net.robots) => robots = Prefix(net.robots.body, BodyLimit)
        /\ ~FetchFailed(net.sitemap) => sitemap = Prefix(net.sitemap.body, BodyLimit)

\* C10: extract_meta raises for no document, and every absent item of its
\* result is the empty string.
C10_ExtractMetaNeverRaises ==
    /\ ~extract_meta(soup).raised
    /\ "exception: extract_meta" \notin ui
    /\ pc \notin {"idle", "extract_meta", "crashed"} /\ ~html.isNone /\ ~html.val.empty =>
         /\ ~soup.title.present => meta.title = <<>>
         /\ ~(soup.description.present /\ soup.description.has_content) => meta.description = <<>>
         /\ ~(soup.canonical.present /\ soup.canonical.has_href) => meta.canonical = <<>>
         /\ ~(soup.viewport.present /\ soup.viewport.has_content) => meta.viewport = <<>>

====
